---- MODULE Spec2Model ----
(***************************************************************************)
(* DDPlot (skfda/exploratory/visualization/_ddplot.py).                    *)
(*                                                                         *)
(* The object is modelled step by step: the constructor is the sequence    *)
(* fit, first evaluation, second evaluation, figure resolution; plot() is  *)
(* the allocation of the artists array, one step per loop iteration, the   *)
(* labels, the limits, the guide line and the return.  The object is used  *)
(* by one thread, so pc serialises the steps of a call.                    *)
(*                                                                         *)
(* Depth values and axis coordinates are fixed-point numbers, in           *)
(* thousandths: 1.0 is Scale, the margin 0.025 is 25.                      *)
(***************************************************************************)
EXTENDS Integers, Sequences, FiniteSets, TLC

VARIABLES
    fdata,          \* the dataset: [n_samples, dataset_name]
    dist1, dist2,   \* the two reference distributions (identities)
    depth_method,   \* the capability: [min, max, kind]
    chart,          \* the constructor's chart argument: "None" or an axes state
    pc,             \* position of the running call
    depth_dist1, depth_dist2,
    fig, axes,      \* references resolved by _set_figure_and_axes (0: unset)
    ax,             \* state of the axes object axes[0]
    artists,        \* self.artists: handles, 0 is the np.zeros placeholder
    artists_id,     \* identity of the array self.artists names (0: no array)
    i,              \* loop variable of plot()
    plots,          \* number of plot() calls started
    calls,          \* calls made on the collaborators, in order
    raised,         \* exception that reached the caller of the last call
    ret,            \* value returned by the last completed call
    first           \* axes state when the first plot() call returned
                    \* (the initial axes state until then)

vars == << fdata, dist1, dist2, depth_method, chart, pc, depth_dist1,
           depth_dist2, fig, axes, ax, artists, artists_id, i, plots,
           calls, raised, ret, first >>

----------------------------------------------------------------------------
(* Bounds of the model. *)
MaxN == 2
MaxPlots == 2

(* Fixed point: the number standing for 1.0. *)
Scale == 1000

(* Locals of plot(). *)
margin == 25
width_aux_line == 350
color_aux_line == "gray"
picker == 2

None == "None"
NoReturn == [kind |-> "none", val |-> 0]

DatasetNames == {None, "Growth"}
Dists == {"distA", "distB"}
Excs == {"ValueError", "TypeError"}

(* The possible (min, max) of a depth capability. *)
DepthBounds == { <<0, Scale>>, <<0 - Scale, Scale + Scale>> }

SeqsUpTo(S, n) == UNION { [1..k -> S] : k \in 0..n }

SetMin(S) == CHOOSE m \in S : \A s \in S : m <= s
SetMax(S) == CHOOSE m \in S : \A s \in S : s <= m

----------------------------------------------------------------------------
(* The axes object, as far as plot() uses it. *)

(* A newly created axes. *)
NewAxes ==
    [ title |-> "", xlabel |-> "", ylabel |-> "",
      xlim |-> <<0, Scale>>, ylim |-> <<0, Scale>>,
      autox |-> TRUE, autoy |-> TRUE,
      collections |-> << >>, lines |-> << >> ]

(* An axes the caller has already drawn on. *)
UsedAxes ==
    [ NewAxes EXCEPT !.title = "Old",
                     !.collections = << [x |-> 500, y |-> 250, picker |-> 0, call |-> 0] >> ]

(* Coordinates of everything drawn on the axes. *)
XData(a) == { a.collections[k].x : k \in 1..Len(a.collections) }
              \cup UNION { {a.lines[k].x0, a.lines[k].x1} : k \in 1..Len(a.lines) }
YData(a) == { a.collections[k].y : k \in 1..Len(a.collections) }
              \cup UNION { {a.lines[k].y0, a.lines[k].y1} : k \in 1..Len(a.lines) }

(* An axis that still autoscales follows the data drawn on it. *)
Autoscale(a) ==
    [ a EXCEPT !.xlim = IF a.autox /\ XData(a) # {}
                        THEN <<SetMin(XData(a)), SetMax(XData(a))>> ELSE @,
               !.ylim = IF a.autoy /\ YData(a) # {}
                        THEN <<SetMin(YData(a)), SetMax(YData(a))>> ELSE @ ]

(* ax.scatter(x, y, picker=2): one more collection; its handle is its place. *)
Scatter(a, x, y, c) ==
    Autoscale([ a EXCEPT !.collections =
                 Append(@, [x |-> x, y |-> y, picker |-> picker, call |-> c]) ])

(* ax.plot([0, 1], ...): the y values 0 and 1 against the x values 0 and 1. *)
PlotLine(a, c) ==
    Autoscale([ a EXCEPT !.lines =
                 Append(@, [x0 |-> 0, y0 |-> 0, x1 |-> Scale, y1 |-> Scale,
                            linewidth |-> width_aux_line,
                            color |-> color_aux_line, call |-> c]) ])

(* ax.set_xlim / ax.set_ylim: the limits as given, autoscaling off. *)
SetXlim(a, lo, hi) == [ a EXCEPT !.xlim = <<lo, hi>>, !.autox = FALSE ]
SetYlim(a, lo, hi) == [ a EXCEPT !.ylim = <<lo, hi>>, !.autoy = FALSE ]

----------------------------------------------------------------------------
(* The depth capability. *)

(* Values a capability that keeps its contract returns: within [min, max]. *)
ContractValues(dm) == { dm.min, (dm.min + dm.max) \div 2, dm.max }

(* Values of a capability that keeps no contract. *)
ArbitraryValues(dm) == { dm.min - 2 * margin, dm.max }

(* The results an evaluation on a dataset of n samples can give. *)
DepthResults(dm, n) ==
    IF dm.kind = "contract"
    THEN [1..n -> ContractValues(dm)]
    ELSE SeqsUpTo(ArbitraryValues(dm), n + 1)

----------------------------------------------------------------------------
(* State after the constructor's arguments are bound. *)

InitWith(kinds) ==
    /\ fdata \in [ n_samples : 0..MaxN, dataset_name : DatasetNames ]
    /\ dist1 = "distA"
    /\ dist2 \in Dists
    /\ depth_method \in { [min |-> b[1], max |-> b[2], kind |-> k] :
                            b \in DepthBounds, k \in kinds }
    /\ chart \in {None, "Axes"}
    /\ pc = "fit"
    /\ depth_dist1 = << >>
    /\ depth_dist2 = << >>
    /\ fig = 0
    /\ axes = 0
    /\ ax = IF chart = None THEN NewAxes ELSE UsedAxes
    /\ artists = << >>
    /\ artists_id = 0
    /\ i = 0
    /\ plots = 0
    /\ calls = << >>
    /\ raised = None
    /\ ret = NoReturn
    /\ first = ax

Init == InitWith({"contract"})

InitUnchecked == InitWith({"contract", "arbitrary"})

----------------------------------------------------------------------------
(* DDPlot.__init__ *)

(* One call on a collaborator, as the caller sees it. *)
Call(op, dist, exc, result) ==
    [op |-> op, dist |-> dist, exc |-> exc, result |-> result]

(* Variant: a failing fit is caught and construction goes on. *)
init_fit_swallow ==
    /\ pc = "fit"
    /\ \E e \in {None} \cup Excs :
        /\ calls' = Append(calls, Call("fit", None, e, << >>))
        /\ pc' = "eval1"
        /\ raised' = raised
    /\ UNCHANGED << fdata, dist1, dist2, depth_method, chart, depth_dist1,
                    depth_dist2, fig, axes, ax, artists, artists_id, i,
                    plots, ret, first >>

(* self.depth_method.fit(fdata): returns, or raises; nothing catches it. *)
init_fit ==
    /\ pc = "fit"
    /\ \E e \in {None} \cup Excs :
        /\ calls' = Append(calls, Call("fit", None, e, << >>))
        /\ IF e = None
           THEN pc' = "eval1" /\ raised' = raised
           ELSE pc' = "failed" /\ raised' = e
    /\ UNCHANGED << fdata, dist1, dist2, depth_method, chart, depth_dist1,
                    depth_dist2, fig, axes, ax, artists, artists_id, i,
                    plots, ret, first >>

(* Variant: the first evaluation is made against dist2. *)
init_depth_dist1_swapped ==
    /\ pc = "eval1"
    /\ \/ \E e \in Excs :
            /\ calls' = Append(calls, Call("evaluate", dist2, e, << >>))
            /\ pc' = "failed"
            /\ raised' = e
            /\ depth_dist1' = depth_dist1
       \/ \E r \in DepthResults(depth_method, fdata.n_samples) :
            /\ calls' = Append(calls, Call("evaluate", dist2, None, r))
            /\ pc' = "eval2"
            /\ raised' = raised
            /\ depth_dist1' = r
    /\ UNCHANGED << fdata, dist1, dist2, depth_method, chart, depth_dist2,
                    fig, axes, ax, artists, artists_id, i, plots, ret,
                    first >>

(* self.depth_dist1 = self.depth_method(self.fdata, distribution=dist1) *)
init_depth_dist1 ==
    /\ pc = "eval1"
    /\ \/ \E e \in Excs :
            /\ calls' = Append(calls, Call("evaluate", dist1, e, << >>))
            /\ pc' = "failed"
            /\ raised' = e
            /\ depth_dist1' = depth_dist1
       \/ \E r \in DepthResults(depth_method, fdata.n_samples) :
            /\ calls' = Append(calls, Call("evaluate", dist1, None, r))
            /\ pc' = "eval2"
            /\ raised' = raised
            /\ depth_dist1' = r
    /\ UNCHANGED << fdata, dist1, dist2, depth_method, chart, depth_dist2,
                    fig, axes, ax, artists, artists_id, i, plots, ret,
                    first >>

(* self.depth_dist2 = self.depth_method(self.fdata, distribution=dist2) *)
init_depth_dist2 ==
    /\ pc = "eval2"
    /\ \/ \E e \in Excs :
            /\ calls' = Append(calls, Call("evaluate", dist2, e, << >>))
            /\ pc' = "failed"
            /\ raised' = e
            /\ depth_dist2' = depth_dist2
       \/ \E r \in DepthResults(depth_method, fdata.n_samples) :
            /\ calls' = Append(calls, Call("evaluate", dist2, None, r))
            /\ pc' = "setfig"
            /\ raised' = raised
            /\ depth_dist2' = r
    /\ UNCHANGED << fdata, dist1, dist2, depth_method, chart, depth_dist1,
                    fig, axes, ax, artists, artists_id, i, plots, ret,
                    first >>

(* The figure the layout utilities resolve to: the one that owns the chart *)
(* given, or a new one.                                                    *)
get_figure_and_axes(c) == IF c = None THEN 1 ELSE 2

(* self._set_figure_and_axes(chart, fig, axes) *)
set_figure_and_axes ==
    /\ pc = "setfig"
    /\ fig' = get_figure_and_axes(chart)
    /\ axes' = get_figure_and_axes(chart)
    /\ calls' = Append(calls, Call("resolve", None, None, << >>))
    /\ pc' = "ready"
    /\ UNCHANGED << fdata, dist1, dist2, depth_method, chart, depth_dist1,
                    depth_dist2, ax, artists, artists_id, i, plots, raised,
                    ret, first >>

----------------------------------------------------------------------------
(* DDPlot.n_samples *)

(* Variant: the size of the artists array instead of the dataset's. *)
n_samples_of_artists == Len(artists)

n_samples == fdata.n_samples

call_n_samples ==
    /\ pc = "ready"
    /\ ret' = [kind |-> "n_samples", val |-> n_samples]
    /\ raised' = None
    /\ UNCHANGED << fdata, dist1, dist2, depth_method, chart, pc,
                    depth_dist1, depth_dist2, fig, axes, ax, artists,
                    artists_id, i, plots, calls, first >>

----------------------------------------------------------------------------
(* DDPlot.plot *)

(* Variant: plot() starts by making a figure of its own. *)
plot_new_figure ==
    /\ pc = "ready"
    /\ plots < MaxPlots
    /\ plots' = plots + 1
    /\ artists' = [k \in 1..n_samples |-> 0]
    /\ artists_id' = artists_id + 1
    /\ i' = 0
    /\ raised' = None
    /\ pc' = "loop"
    /\ fig' = fig + 2
    /\ UNCHANGED << fdata, dist1, dist2, depth_method, chart, depth_dist1,
                    depth_dist2, axes, ax, calls, ret, first >>

(* Variant: the artists array is sized by the first depth vector. *)
plot_sized_by_depth ==
    /\ pc = "ready"
    /\ plots < MaxPlots
    /\ plots' = plots + 1
    /\ artists' = [k \in 1..Len(depth_dist1) |-> 0]
    /\ artists_id' = artists_id + 1
    /\ i' = 0
    /\ raised' = None
    /\ pc' = "loop"
    /\ UNCHANGED << fdata, dist1, dist2, depth_method, chart, depth_dist1,
                    depth_dist2, fig, axes, ax, calls, ret, first >>

(* self.artists = np.zeros(self.n_samples(), dtype=Artist) *)
plot ==
    /\ pc = "ready"
    /\ plots < MaxPlots
    /\ plots' = plots + 1
    /\ artists' = [k \in 1..n_samples |-> 0]
    /\ artists_id' = artists_id + 1
    /\ i' = 0
    /\ raised' = None
    /\ pc' = "loop"
    /\ UNCHANGED << fdata, dist1, dist2, depth_method, chart, depth_dist1,
                    depth_dist2, fig, axes, ax, calls, ret, first >>

(* The IndexError of an index past the end leaves plot() at once. *)
IndexError ==
    /\ raised' = "IndexError"
    /\ pc' = "ready"
    /\ i' = i

(* Variant: the slot gets the sample's index, not the handle scatter gave. *)
plot_loop_index ==
    /\ pc = "loop"
    /\ IF i < Len(depth_dist1)
       THEN IF i >= Len(depth_dist2)
            THEN IndexError /\ UNCHANGED << ax, artists >>
            ELSE /\ ax' = Scatter(ax, depth_dist1[i + 1], depth_dist2[i + 1], plots)
                 /\ IF i >= Len(artists)
                    THEN IndexError /\ UNCHANGED artists
                    ELSE /\ artists' = [artists EXCEPT ![i + 1] = i + 1]
                         /\ i' = i + 1
                         /\ UNCHANGED << pc, raised >>
       ELSE /\ pc' = "labels"
            /\ UNCHANGED << ax, artists, i, raised >>
    /\ UNCHANGED << fdata, dist1, dist2, depth_method, chart, depth_dist1,
                    depth_dist2, fig, axes, artists_id, plots, calls, ret,
                    first >>

(* One iteration of  for i in range(len(self.depth_dist1)):  the two reads, *)
(* then the scatter call, then the store into self.artists[i].              *)
plot_loop ==
    /\ pc = "loop"
    /\ IF i < Len(depth_dist1)
       THEN IF i >= Len(depth_dist2)
            THEN IndexError /\ UNCHANGED << ax, artists >>
            ELSE /\ ax' = Scatter(ax, depth_dist1[i + 1], depth_dist2[i + 1], plots)
                 /\ IF i >= Len(artists)
                    THEN IndexError /\ UNCHANGED artists
                    ELSE /\ artists' = [artists EXCEPT ![i + 1] = Len(ax'.collections)]
                         /\ i' = i + 1
                         /\ UNCHANGED << pc, raised >>
       ELSE /\ pc' = "labels"
            /\ UNCHANGED << ax, artists, i, raised >>
    /\ UNCHANGED << fdata, dist1, dist2, depth_method, chart, depth_dist1,
                    depth_dist2, fig, axes, artists_id, plots, calls, ret,
                    first >>

(* Variant: the title is set whether or not the dataset has a name. *)
plot_labels_always ==
    /\ pc = "labels"
    /\ ax' = [ ax EXCEPT !.title = fdata.dataset_name,
                         !.xlabel = "X depth",
                         !.ylabel = "Y depth" ]
    /\ pc' = "limits"
    /\ UNCHANGED << fdata, dist1, dist2, depth_method, chart, depth_dist1,
                    depth_dist2, fig, axes, artists, artists_id, i, plots,
                    calls, raised, ret, first >>

(* The title, when the dataset has a name, and the two labels. *)
plot_labels ==
    /\ pc = "labels"
    /\ ax' = [ ax EXCEPT !.title = IF fdata.dataset_name # None
                                   THEN fdata.dataset_name ELSE @,
                         !.xlabel = "X depth",
                         !.ylabel = "Y depth" ]
    /\ pc' = "limits"
    /\ UNCHANGED << fdata, dist1, dist2, depth_method, chart, depth_dist1,
                    depth_dist2, fig, axes, artists, artists_id, i, plots,
                    calls, raised, ret, first >>

(* Variant: the upper y limit without the margin. *)
plot_limits_no_upper_margin ==
    /\ pc = "limits"
    /\ ax' = SetYlim(SetXlim(ax, depth_method.min - margin,
                                 depth_method.max + margin),
                     depth_method.min - margin, depth_method.max)
    /\ pc' = "line"
    /\ UNCHANGED << fdata, dist1, dist2, depth_method, chart, depth_dist1,
                    depth_dist2, fig, axes, artists, artists_id, i, plots,
                    calls, raised, ret, first >>

(* Variant: the margin added to the lower limits instead of subtracted. *)
plot_limits_margin_sign ==
    /\ pc = "limits"
    /\ ax' = SetYlim(SetXlim(ax, depth_method.min + margin,
                                 depth_method.max + margin),
                     depth_method.min + margin, depth_method.max + margin)
    /\ pc' = "line"
    /\ UNCHANGED << fdata, dist1, dist2, depth_method, chart, depth_dist1,
                    depth_dist2, fig, axes, artists, artists_id, i, plots,
                    calls, raised, ret, first >>

(* Variant: the margin applied to the limits the axes has at the time. *)
plot_limits_relative ==
    /\ pc = "limits"
    /\ ax' = SetYlim(SetXlim(ax, ax.xlim[1] - margin, ax.xlim[2] + margin),
                     ax.ylim[1] - margin, ax.ylim[2] + margin)
    /\ pc' = "line"
    /\ UNCHANGED << fdata, dist1, dist2, depth_method, chart, depth_dist1,
                    depth_dist2, fig, axes, artists, artists_id, i, plots,
                    calls, raised, ret, first >>

(* ax.set_xlim([min - margin, max + margin]) and the same for y. *)
plot_limits ==
    /\ pc = "limits"
    /\ ax' = SetYlim(SetXlim(ax, depth_method.min - margin,
                                 depth_method.max + margin),
                     depth_method.min - margin, depth_method.max + margin)
    /\ pc' = "line"
    /\ UNCHANGED << fdata, dist1, dist2, depth_method, chart, depth_dist1,
                    depth_dist2, fig, axes, artists, artists_id, i, plots,
                    calls, raised, ret, first >>

(* ax.plot([0, 1], linewidth=width_aux_line, color=color_aux_line) *)
plot_line ==
    /\ pc = "line"
    /\ ax' = PlotLine(ax, plots)
    /\ pc' = "return"
    /\ UNCHANGED << fdata, dist1, dist2, depth_method, chart, depth_dist1,
                    depth_dist2, fig, axes, artists, artists_id, i, plots,
                    calls, raised, ret, first >>

(* return self.fig *)
plot_return ==
    /\ pc = "return"
    /\ ret' = [kind |-> "plot", val |-> fig]
    /\ first' = IF plots = 1 THEN ax ELSE first
    /\ pc' = "ready"
    /\ UNCHANGED << fdata, dist1, dist2, depth_method, chart, depth_dist1,
                    depth_dist2, fig, axes, ax, artists, artists_id, i,
                    plots, calls, raised >>

----------------------------------------------------------------------------
Next ==
    \/ init_fit
    \/ init_depth_dist1
    \/ init_depth_dist2
    \/ set_figure_and_axes
    \/ call_n_samples
    \/ plot
    \/ plot_loop
    \/ plot_labels
    \/ plot_limits
    \/ plot_line
    \/ plot_return

(* The depth capability keeps its contract. *)
Spec == Init /\ [][Next]_vars

(* The depth capability is any callable. *)
SpecUnchecked == InitUnchecked /\ [][Next]_vars

----------------------------------------------------------------------------
(* Vocabulary of the properties. *)

(* The constructor has returned: the object exists. *)
Constructed == pc \in {"ready", "loop", "labels", "limits", "line", "return"}

(* The last call made on the object was plot(), and it returned. *)
PlotReturned == pc = "ready" /\ ret.kind = "plot" /\ raised = None

(* The last call made on the object was plot(), and it raised. *)
PlotFailed == pc = "ready" /\ raised = "IndexError"

(* The last call made on the object was plot(). *)
PlotEnded == PlotReturned \/ PlotFailed

(* The axes the constructor was given, or the new one. *)
InitialAxes == IF chart = None THEN NewAxes ELSE UsedAxes

(* The places of the collections drawn by plot() call number c. *)
DrawnBy(c) == { k \in 1..Len(ax.collections) : ax.collections[k].call = c }

(* What is visible of an axes, the order and number of its artists included. *)
Surface(a) ==
    [ points |-> [k \in 1..Len(a.collections) |->
                    <<a.collections[k].x, a.collections[k].y>>],
      lines |-> [k \in 1..Len(a.lines) |->
                    <<a.lines[k].x0, a.lines[k].y0, a.lines[k].x1, a.lines[k].y1>>],
      title |-> a.title, xlabel |-> a.xlabel, ylabel |-> a.ylabel,
      xlim |-> a.xlim, ylim |-> a.ylim ]

(* The same, with the points and the lines as sets of positions. *)
Picture(a) ==
    [ points |-> { Surface(a).points[k] : k \in 1..Len(a.collections) },
      lines |-> { Surface(a).lines[k] : k \in 1..Len(a.lines) },
      title |-> a.title, xlabel |-> a.xlabel, ylabel |-> a.ylabel,
      xlim |-> a.xlim, ylim |-> a.ylim ]

PlotLimits == << depth_method.min - margin, depth_method.max + margin >>

----------------------------------------------------------------------------
(* C1: once the constructor has returned, both depth vectors have as many  *)
(* entries as the dataset has samples, n_samples() is that number, and it  *)
(* stays so through every later plot() and n_samples() call.               *)
C1_Lengths ==
    Constructed =>
        /\ Len(depth_dist1) = fdata.n_samples
        /\ Len(depth_dist2) = fdata.n_samples
        /\ n_samples = fdata.n_samples
        /\ ret.kind = "n_samples" => ret.val = fdata.n_samples

C1_Witness ==
    /\ pc = "ready" /\ plots = MaxPlots /\ ret.kind = "n_samples"
    /\ fdata.n_samples = MaxN /\ Len(depth_dist1) = MaxN

(* C2: when a plot() call has ended, the first or a later one, artists has *)
(* N entries and entry i is the handle of the point that this very call    *)
(* drew at (depth_dist1[i], depth_dist2[i]); no plot() call raises.        *)
C2_HandlesAligned ==
    /\ raised # "IndexError"
    /\ (pc = "ready" /\ plots >= 1) =>
          /\ Len(artists) = fdata.n_samples
          /\ \A k \in 1..Len(artists) :
                /\ artists[k] \in 1..Len(ax.collections)
                /\ ax.collections[artists[k]] =
                     [ x |-> depth_dist1[k], y |-> depth_dist2[k],
                       picker |-> picker, call |-> plots ]
          /\ \A k, l \in 1..Len(artists) : artists[k] = artists[l] => k = l

C2_Witness ==
    /\ pc = "ready" /\ plots = 2 /\ ret.kind = "plot"
    /\ fdata.n_samples = MaxN /\ chart # None
    /\ depth_dist1[1] # depth_dist1[2]

(* C3: when plot() has returned, the x limits and the y limits are both    *)
(* [min - margin, max + margin], whatever the depth vectors hold; the guide *)
(* line drawn after the limits are set does not move them, nor does a      *)
(* scatter call made once they are set.                                    *)
C3_Limits ==
    /\ [](PlotReturned => ax.xlim = PlotLimits /\ ax.ylim = PlotLimits)
    /\ [][ (pc = "line" \/ (pc = "loop" /\ Len(ax.lines) >= 1))
            => ax'.xlim = ax.xlim /\ ax'.ylim = ax.ylim ]_vars

C3_Witness ==
    /\ PlotReturned /\ plots = 1
    /\ fdata.n_samples = MaxN
    /\ Len(depth_dist1) = MaxN /\ Len(depth_dist2) = MaxN
    /\ \A k \in 1..MaxN : depth_dist1[k] < depth_method.min
                          /\ depth_dist2[k] = depth_method.max
    /\ ax.xlim = PlotLimits

(* C4: when a plot() call has ended, every point drawn by the object lies  *)
(* strictly between the limits on both axes.                               *)
C4_PointsInside ==
    (pc \in {"line", "return", "ready"} /\ plots >= 1) =>
        \A k \in 1..Len(ax.collections) :
            ax.collections[k].call >= 1 =>
                /\ ax.xlim[1] < ax.collections[k].x
                /\ ax.collections[k].x < ax.xlim[2]
                /\ ax.ylim[1] < ax.collections[k].y
                /\ ax.collections[k].y < ax.ylim[2]

C4_Witness ==
    /\ pc = "ready" /\ plots >= 1 /\ fdata.n_samples = MaxN
    /\ depth_dist1[1] = depth_method.min /\ depth_dist2[1] = depth_method.max
    /\ depth_dist1[2] = depth_method.max /\ depth_dist2[2] = depth_method.min

(* C5: plot() sets the title to the dataset's name exactly when there is   *)
(* one; with no name no step of plot() touches the title, which stays the  *)
(* one the axes had.  Both labels are set in either case.                  *)
C5_TitleAndLabels ==
    /\ []( (pc \in {"limits", "line", "return"} \/ (pc = "ready" /\ plots >= 1)) =>
             /\ ax.xlabel = "X depth"
             /\ ax.ylabel = "Y depth"
             /\ ax.title = IF fdata.dataset_name # None
                           THEN fdata.dataset_name ELSE InitialAxes.title )
    /\ [][ ax'.title # ax.title =>
             /\ pc = "labels"
             /\ fdata.dataset_name # None
             /\ ax'.title = fdata.dataset_name ]_vars

C5_Witness ==
    /\ PlotReturned /\ fdata.dataset_name = None
    /\ ax.title = "Old" /\ ax.xlabel = "X depth"

(* C6 as stated: after two or more plot() calls the drawing surface is in  *)
(* the state it had after the first one.                                   *)
C6_Original ==
    (pc = "ready" /\ plots >= 2) => Surface(ax) = Surface(first)

(* C6 amended: after k >= 2 plot() calls the positions of the drawn points, *)
(* the guide line's end points, the title, the labels and the limits are   *)
(* those after the first call, while the surface holds the N points and the *)
(* guide line of every one of the k calls.                                 *)
C6_SamePicture ==
    (pc = "ready" /\ plots >= 2) =>
        /\ Picture(ax) = Picture(first)
        /\ Len(ax.collections) = Len(InitialAxes.collections) + plots * fdata.n_samples
        /\ Len(ax.lines) = plots
        /\ \A c \in 1..plots : Cardinality(DrawnBy(c)) = fdata.n_samples

C6_Witness ==
    /\ pc = "ready" /\ plots = 2 /\ fdata.n_samples = MaxN
    /\ Len(ax.collections) >= 2 * MaxN /\ Len(ax.lines) = 2
    /\ Len(first.lines) = 1

(* C7: a failure of fit or of either evaluation is the last thing the      *)
(* constructor does: the exception reaches the caller as raised, no call   *)
(* follows it, no figure is resolved, and no plot() can be made.           *)
C7_FailurePropagates ==
    /\ \A k \in 1..Len(calls) :
          calls[k].exc # None =>
              /\ k = Len(calls)
              /\ pc = "failed"
              /\ raised = calls[k].exc
    /\ pc = "failed" =>
          /\ Len(calls) >= 1
          /\ calls[Len(calls)].exc # None
          /\ calls[Len(calls)].op \in {"fit", "evaluate"}
          /\ fig = 0 /\ axes = 0
          /\ plots = 0 /\ artists_id = 0 /\ ret = NoReturn
          /\ ~ ENABLED plot

C7_Witness ==
    /\ pc = "failed" /\ Len(calls) = 3
    /\ calls[3].dist = dist2 /\ raised = "TypeError" /\ dist2 # dist1

(* C8: the constructor calls fit once, then evaluates against dist1 and    *)
(* keeps the result as depth_dist1, then against dist2 and keeps the       *)
(* result as depth_dist2, then resolves the figure; nothing after the      *)
(* constructor calls the capability again.                                 *)
C8_CallOrder ==
    /\ Len(calls) <= 4
    /\ \A k \in 1..Len(calls) :
          /\ k = 1 => calls[k].op = "fit"
          /\ k = 2 => calls[k].op = "evaluate" /\ calls[k].dist = dist1
          /\ k = 3 => calls[k].op = "evaluate" /\ calls[k].dist = dist2
          /\ k = 4 => calls[k].op = "resolve"
    /\ pc \in {"eval2", "setfig"} \cup {"ready", "loop", "labels", "limits", "line", "return"} =>
          depth_dist1 = calls[2].result
    /\ Constructed =>
          /\ Len(calls) = 4
          /\ depth_dist2 = calls[3].result
          /\ \A k \in 1..4 : calls[k].exc = None
    /\ fig # 0 => Len(calls) = 4

C8_Witness ==
    /\ pc = "ready" /\ plots = MaxPlots /\ ret.kind = "n_samples"
    /\ dist1 # dist2 /\ Len(calls) = 4
    /\ depth_dist1 # depth_dist2

(* C9: once the object is constructed no step changes the depth vectors,   *)
(* the dataset or the fig and axes references; only the start of plot()    *)
(* makes artists name an array, always a new one; plot() returns fig.      *)
C9_Frame ==
    /\ [](ret.kind = "plot" => ret.val = fig /\ fig = get_figure_and_axes(chart))
    /\ [][ Constructed =>
             /\ depth_dist1' = depth_dist1
             /\ depth_dist2' = depth_dist2
             /\ fdata' = fdata
             /\ depth_method' = depth_method
             /\ fig' = fig
             /\ axes' = axes
             /\ artists_id' # artists_id =>
                   (pc = "ready" /\ pc' = "loop" /\ artists_id' > artists_id)
             /\ (pc = "ready" /\ pc' = "loop") => artists_id' > artists_id ]_vars

C9_Witness ==
    /\ PlotReturned /\ plots = 2 /\ artists_id = 2 /\ ret.val = fig
    /\ fdata.n_samples = MaxN

(* The number of points a failing plot() call has drawn when it raises. *)
DrawnBeforeFailure ==
    IF Len(depth_dist2) <= fdata.n_samples /\ Len(depth_dist2) < Len(depth_dist1)
    THEN Len(depth_dist2)
    ELSE fdata.n_samples + 1

C10_Mismatch == Len(depth_dist1) > fdata.n_samples \/ Len(depth_dist2) < Len(depth_dist1)

C10_AllFilled == Len(artists) = fdata.n_samples /\ \A k \in 1..Len(artists) : artists[k] # 0

C10_NothingSet ==
    /\ ax.title = InitialAxes.title /\ ax.xlabel = "" /\ ax.ylabel = ""
    /\ ax.autox /\ ax.autoy /\ ax.lines = << >>

(* C10, the parts that stand: plot() returns with every slot filled only   *)
(* if len(depth_dist1) = N and len(depth_dist2) >= N, and then it does;    *)
(* with a shorter depth_dist1 the trailing slots keep the placeholder.     *)
C10_Common ==
    /\ (PlotReturned /\ C10_AllFilled) =>
          Len(depth_dist1) = fdata.n_samples /\ Len(depth_dist2) >= fdata.n_samples
    /\ (PlotEnded /\ Len(depth_dist1) = fdata.n_samples
          /\ Len(depth_dist2) >= fdata.n_samples) => (PlotReturned /\ C10_AllFilled)
    /\ (plots >= 1 /\ Len(depth_dist1) < fdata.n_samples) =>
          /\ Len(artists) = fdata.n_samples
          /\ \A k \in (Len(depth_dist1) + 1)..fdata.n_samples : artists[k] = 0
    /\ PlotEnded => (PlotFailed <=> C10_Mismatch)

(* C10 as stated: on a mismatch plot() raises after it drew some points.   *)
C10_Original ==
    /\ C10_Common
    /\ (PlotEnded /\ C10_Mismatch) =>
          /\ PlotFailed
          /\ C10_NothingSet
          /\ Cardinality(DrawnBy(plots)) >= 1

(* C10 amended: on a mismatch plot() raises an index error before title,   *)
(* labels, limits and guide line are set, after it drew len(depth_dist2)   *)
(* points when that is at most N and less than len(depth_dist1), none if   *)
(* depth_dist2 is empty, and N + 1 points otherwise.                       *)
C10_Amended ==
    /\ C10_Common
    /\ (PlotEnded /\ C10_Mismatch) =>
          /\ PlotFailed
          /\ C10_NothingSet
          /\ \A c \in 1..plots : Cardinality(DrawnBy(c)) = DrawnBeforeFailure

C10_Witness ==
    /\ PlotFailed /\ plots = 2
    /\ Len(depth_dist1) = fdata.n_samples + 1
    /\ Len(depth_dist2) = fdata.n_samples + 1
    /\ fdata.n_samples = MaxN
    /\ Cardinality(DrawnBy(2)) = MaxN + 1

C10_WitnessEmpty ==
    /\ PlotFailed /\ Len(depth_dist2) = 0 /\ Len(depth_dist1) >= 1
    /\ DrawnBy(plots) = {}

====
